---- MODULE Spec2Model ----
(***************************************************************************)
(* Model of src/src/server/clusterManager.py: the node registry, the       *)
(* round-robin selector, the background health monitor and the distributed *)
(* executor of class clusterManager.                                       *)
(*                                                                         *)
(* Python objects are modelled by reference: a node is a dict object, the  *)
(* heap maps each object to its fields, and self.nodes is a list of        *)
(* references.  Calls are split at the points where another thread can     *)
(* observe their effect (one list operation, one loop iteration).          *)
(***************************************************************************)
EXTENDS Integers, Sequences, FiniteSets, TLC

VARIABLES
  initial_nodes, \* the list given to the constructor
  heap,        \* object -> fields of the node dict (id, last_heartbeat, status)
  nodes,       \* self.nodes: list of references to node dicts
  now,         \* time.time()
  nextId,      \* number of uuid4 values drawn so far
  nodes_lock,  \* holder of self._nodes_lock
  health_check_lock, \* holder of self._health_check_lock
  sel,         \* thread inside select_node_for_operation
  rd,          \* thread inside get_healthy_nodes (called without a lock)
  mon,         \* the health-monitor thread (_health_check)
  disp,        \* thread inside perform_distributed_operation
  beats,       \* external heartbeat refreshes so far
  ret,         \* what the step just taken returned or raised to its caller
  run,         \* observer: the current run of consecutive successful selections
  stayRd,      \* observer: nodes registered and healthy throughout the current read
  wfRd,        \* observer: the registry was well formed throughout the current read
  stayMon      \* observer: nodes registered throughout the current sweep

vars == <<initial_nodes, heap, nodes, now, nextId, nodes_lock, health_check_lock, sel, rd, mon, disp, beats, ret,
          run, stayRd, wfRd, stayMon>>


(***************************************************************************)
(* Program constants and model bounds.                                     *)
(***************************************************************************)
node_timeout == 30
health_check_interval == 60

MaxObjs == 3       \* dict objects the callers hold
MaxInitial == 1    \* length of the initial_nodes list given to the constructor
MaxNodes == 3      \* add_node calls and length of self.nodes, one client
FewNodes == 2      \* the same, where clients read or run concurrently
MaxTime == 90      \* the clock stops here
MaxBeats == 1      \* external heartbeat refreshes
MaxConc == 2       \* largest max_concurrent_nodes passed to a dispatch

Objs == 1..MaxObjs

(***************************************************************************)
(* Node dicts.  A dict as the caller built it has host/port/capacity only: *)
(* no 'id', no 'last_heartbeat', no 'status'.                              *)
(***************************************************************************)
NoId == 0
NoTime == -1
Raw == [id |-> NoId, last_heartbeat |-> NoTime, status |-> "missing"]

IsRaw(o) == heap[o].status = "missing"

Range(s) == {s[i] : i \in 1..Len(s)}

HasRaw(L) == \E i \in 1..Len(L) : IsRaw(L[i])

NoDup(L) == \A i, j \in 1..Len(L) : i # j => L[i] # L[j]

\* the filter of get_healthy_nodes, for one node dict d at the captured time
\* a filter that trusts the status the monitor wrote
ActiveDict(d, t) == d.status = "active"

HealthyDict(d, t) ==
  /\ d.status = "active"
  /\ t - d.last_heartbeat < node_timeout

IsHealthy(o, t) == HealthyDict(heap[o], t)

\* the comprehension of get_healthy_nodes over a list nobody changes meanwhile
HealthyOf(L, t) == SelectSeq(L, LAMBDA o : IsHealthy(o, t))

\* the test of _health_check for one node
IsExpired(o, t) == t - heap[o].last_heartbeat > node_timeout

(***************************************************************************)
(* Thread states.                                                          *)
(***************************************************************************)
SelIdle == [pc |-> "idle", selected |-> 0, popped |-> 0, before |-> <<>>,
            healthy |-> <<>>]

RdIdle == [pc |-> "idle", purpose |-> "get", m |-> 0, maxc |-> 0, i |-> 0,
           acc |-> <<>>, time |-> 0, live |-> TRUE, snap |-> <<>>]

DispIdle == [pc |-> "idle", maxc |-> 0, futs |-> <<>>, results |-> <<>>]

NoRet == [op |-> "none", err |-> "none", arg |-> 0, val |-> <<>>]

NoRun == [start |-> <<>>, healthy |-> <<>>, rets |-> <<>>]

Quiet == sel.pc = "idle" /\ rd.pc = "idle" /\ disp.pc = "idle"

\* the nodes of the registry, also while a selection holds one between pop and append
Registered(L, s) == Range(L) \cup (IF s.pc = "popped" THEN {s.popped} ELSE {})

\* the list an iterator walks: self.nodes itself, or the list object that was
\* self.nodes when the iteration began, if remove_node has rebound self.nodes since
ListOf(it) == IF it.live THEN nodes ELSE it.snap

\* remove_node rebinds self.nodes: an iterator begun on the old list keeps it
Detach(it) == IF it.pc # "idle" /\ it.pc # "sleep" /\ it.live
              THEN [it EXCEPT !.live = FALSE, !.snap = nodes]
              ELSE it

(***************************************************************************)
(* __init__: self.nodes = initial_nodes or [], the monitor thread starts.  *)
(***************************************************************************)
Init ==
  /\ heap = [o \in Objs |-> Raw]
  /\ \E k \in 0..MaxInitial : initial_nodes = [i \in 1..k |-> i]
  /\ nodes = initial_nodes
  /\ now = 0
  /\ nextId = 0
  /\ nodes_lock = "free"
  /\ health_check_lock = "free"
  /\ sel = SelIdle
  /\ rd = RdIdle
  /\ mon = [pc |-> "sleep", i |-> 0, time |-> 0, wake |-> 0, live |-> TRUE,
            snap |-> <<>>]
  /\ disp = DispIdle
  /\ beats = 0
  /\ ret = NoRet
  /\ run = NoRun
  /\ stayRd = {}
  /\ wfRd = TRUE
  /\ stayMon = {}

(***************************************************************************)
(* add_node: under the lock, writes id, last_heartbeat and status into the *)
(* caller's dict and appends that dict to self.nodes.                      *)
(***************************************************************************)
FreshId == nextId + 1

AddNode(o) ==
  /\ nodes_lock = "free"
  /\ nextId' = FreshId
  /\ heap' = [heap EXCEPT ![o] = [id |-> FreshId, last_heartbeat |-> now,
                                  status |-> "active"]]
  /\ nodes' = Append(nodes, o)
  /\ ret' = [NoRet EXCEPT !.op = "add", !.val = <<FreshId>>]
  /\ UNCHANGED <<initial_nodes, health_check_lock, now, nodes_lock, sel, rd, mon, disp, beats>>

(***************************************************************************)
(* remove_node: under the lock, rebuilds the list without the entries      *)
(* whose 'id' equals node_id; node['id'] raises KeyError on a dict that    *)
(* has none, and then self.nodes is left as it was.                        *)
(***************************************************************************)
Without(L, x) == SelectSeq(L, LAMBDA o : heap[o].id # x)

\* the dicts the manager or one of its threads still refers to
Referenced(L) ==
  Range(L) \cup Range(rd.acc) \cup Range(ListOf(rd)) \cup Range(ListOf(mon))
    \cup {disp.futs[k].node : k \in 1..Len(disp.futs)}

\* a dict nothing refers to any more is like a new one: add_node overwrites
\* the three fields it wrote
Forget(L) == [o \in Objs |-> IF o \in Referenced(L) THEN heap[o] ELSE Raw]

RemoveNode(x) ==
  /\ nodes_lock = "free"
  /\ IF HasRaw(nodes)
     THEN /\ ret' = [NoRet EXCEPT !.op = "remove", !.err = "KeyError", !.arg = x]
          /\ UNCHANGED <<heap, nodes, rd, mon>>
     ELSE /\ nodes' = Without(nodes, x)
          /\ heap' = Forget(Without(nodes, x))
          /\ rd' = Detach(rd)
          /\ mon' = Detach(mon)
          /\ ret' = [NoRet EXCEPT !.op = "remove", !.arg = x]
  /\ UNCHANGED <<initial_nodes, health_check_lock, now, nextId, nodes_lock, sel, disp, beats>>

(***************************************************************************)
(* select_node_for_operation, under the lock:                              *)
(*   healthy_nodes = self.get_healthy_nodes()   (SelBegin)                 *)
(*   selected_node = healthy_nodes[0]                                      *)
(*   self.nodes.pop(0)                          (SelPop)                   *)
(*   self.nodes.append(<popped>)                (SelAppend)                *)
(***************************************************************************)
SelBegin ==
  /\ sel.pc = "idle"
  /\ nodes_lock = "free"
  /\ IF HasRaw(nodes)
     THEN /\ ret' = [NoRet EXCEPT !.op = "select", !.err = "KeyError"]
          /\ UNCHANGED <<sel, nodes_lock>>
     ELSE LET healthy == HealthyOf(nodes, now) IN
          IF Len(healthy) < 1
          THEN /\ ret' = [NoRet EXCEPT !.op = "select", !.err = "capacity"]
               /\ UNCHANGED <<sel, nodes_lock>>
          ELSE /\ sel' = [pc |-> "chosen", selected |-> healthy[1], popped |-> 0,
                          before |-> nodes, healthy |-> healthy]
               /\ nodes_lock' = "sel"
               /\ ret' = NoRet
  /\ UNCHANGED <<initial_nodes, health_check_lock, heap, nodes, now, nextId, rd, mon, disp, beats>>

\* self.nodes.pop(0): the index the selector takes out of the list
PopIndex(L, s) == 1

\* a rotation that reads list[k] and leaves it in the list
KeepAt(L, k) == L

RemoveAt(L, k) == [i \in 1..(Len(L) - 1) |-> IF i < k THEN L[i] ELSE L[i + 1]]

SelPop ==
  /\ sel.pc = "chosen"
  /\ sel' = [sel EXCEPT !.pc = "popped", !.popped = nodes[PopIndex(nodes, sel)]]
  /\ nodes' = RemoveAt(nodes, PopIndex(nodes, sel))
  /\ ret' = NoRet
  /\ UNCHANGED <<initial_nodes, health_check_lock, heap, now, nextId, nodes_lock, rd, mon, disp, beats>>

SelAppend ==
  /\ sel.pc = "popped"
  /\ nodes' = Append(nodes, sel.popped)
  /\ sel' = SelIdle
  /\ nodes_lock' = "free"
  /\ ret' = [NoRet EXCEPT !.op = "select", !.val = <<sel.selected>>]
  /\ UNCHANGED <<initial_nodes, health_check_lock, heap, now, nextId, rd, mon, disp, beats>>

(***************************************************************************)
(* get_healthy_nodes called by a client thread: no lock is taken.          *)
(*   current_time = time.time()                          (RdBegin)         *)
(*   [node for node in self.nodes if ...]                (RdStep, one      *)
(*   if len(healthy_nodes) < min_nodes: raise            iteration each)   *)
(* A list iterator holds the list object and an index; each step reads     *)
(* list[index] if index < len(list), else the loop ends.                   *)
(***************************************************************************)
RdBegin(m) ==
  /\ rd.pc = "idle"
  /\ disp.pc = "idle"
  /\ rd' = [RdIdle EXCEPT !.pc = "iter", !.m = m, !.i = 1, !.time = now]
  /\ ret' = NoRet
  /\ UNCHANGED <<initial_nodes, health_check_lock, heap, nodes, now, nextId, nodes_lock, sel, mon, disp, beats>>

\* executor.submit(operation, node, data) for node in healthy_nodes[:max]
Submitted(healthy, c) ==
  [k \in 1..(IF c < Len(healthy) THEN c ELSE Len(healthy)) |->
     [node |-> healthy[k], st |-> "running", collected |-> FALSE]]

RdStep ==
  /\ rd.pc = "iter"
  /\ LET L == ListOf(rd) IN
     IF rd.i <= Len(L)
     THEN IF IsRaw(L[rd.i])
          THEN \* node['status'] raises KeyError
               /\ rd' = RdIdle
               /\ disp' = DispIdle
               /\ ret' = [NoRet EXCEPT
                            !.op = IF rd.purpose = "get" THEN "get_healthy" ELSE "dispatch",
                            !.err = "KeyError",
                            !.arg = IF rd.purpose = "get" THEN rd.m ELSE rd.maxc]
          ELSE /\ rd' = [rd EXCEPT !.i = rd.i + 1,
                                   !.acc = IF IsHealthy(L[rd.i], rd.time)
                                           THEN Append(rd.acc, L[rd.i]) ELSE rd.acc]
               /\ ret' = NoRet
               /\ UNCHANGED disp
     ELSE /\ rd' = RdIdle
          /\ IF Len(rd.acc) < rd.m
             THEN /\ ret' = [NoRet EXCEPT
                               !.op = IF rd.purpose = "get" THEN "get_healthy" ELSE "dispatch",
                               !.err = "capacity",
                               !.arg = IF rd.purpose = "get" THEN rd.m ELSE rd.maxc]
                  /\ disp' = DispIdle
             ELSE IF rd.purpose = "get"
             THEN /\ ret' = [NoRet EXCEPT !.op = "get_healthy", !.arg = rd.m,
                                          !.val = rd.acc]
                  /\ UNCHANGED disp
             ELSE IF rd.maxc < 1
             THEN \* ThreadPoolExecutor(max_workers=0) raises ValueError
                  /\ ret' = [NoRet EXCEPT !.op = "dispatch", !.err = "ValueError",
                                          !.arg = rd.maxc]
                  /\ disp' = DispIdle
             ELSE /\ ret' = NoRet
                  /\ disp' = [pc |-> "running", maxc |-> rd.maxc,
                              futs |-> Submitted(rd.acc, rd.maxc), results |-> <<>>]
  /\ UNCHANGED <<initial_nodes, health_check_lock, heap, nodes, now, nextId, nodes_lock, sel, mon, beats>>

(***************************************************************************)
(* _health_check: the monitor thread.                                      *)
(*   with self._health_check_lock:                                         *)
(*       current_time = time.time()                      (MonBegin)        *)
(*       for node in self.nodes: ...                     (MonStep)         *)
(*   time.sleep(self.health_check_interval)                                *)
(* An exception in the sweep is caught by the loop, which sleeps one       *)
(* interval as well.                                                       *)
(***************************************************************************)
MonBegin ==
  /\ mon.pc = "sleep"
  /\ mon.wake <= now
  /\ health_check_lock = "free"
  /\ health_check_lock' = "mon"
  /\ mon' = [mon EXCEPT !.pc = "sweep", !.i = 1, !.time = now, !.live = TRUE,
                        !.snap = <<>>]
  /\ ret' = NoRet
  /\ UNCHANGED <<initial_nodes, heap, nodes, now, nextId, nodes_lock, sel, rd, disp, beats>>

Asleep == [mon EXCEPT !.pc = "sleep", !.i = 0, !.wake = now + health_check_interval,
                      !.live = TRUE, !.snap = <<>>]

\* a sweep that sets the status both ways, by the heartbeat's age
SweptRevive(o, t) ==
  [heap[o] EXCEPT !.status = IF IsExpired(o, t) THEN "inactive" ELSE "active"]

\* the dict of node o after the sweep of time t has visited it
Swept(o, t) ==
  IF IsExpired(o, t) THEN [heap[o] EXCEPT !.status = "inactive"] ELSE heap[o]

\* a monitor thread that an exception in the sweep ends
Uncaught == [mon EXCEPT !.pc = "dead", !.i = 0, !.live = TRUE, !.snap = <<>>]

\* except Exception: the loop logs the error and sleeps one interval
Caught == Asleep

\* a health lock that stays held when the sweep raises
HeldOnRaise(raised) == IF raised THEN "mon" ELSE "free"

\* with self._health_check_lock: the lock is released however the block ends
Released(raised) == "free"

MonStep ==
  /\ mon.pc = "sweep"
  /\ LET L == ListOf(mon) IN
     IF mon.i <= Len(L)
     THEN IF IsRaw(L[mon.i])
          THEN \* node['last_heartbeat'] raises KeyError: the sweep ends here
               /\ mon' = Caught
               /\ health_check_lock' = Released(TRUE)
               /\ ret' = [NoRet EXCEPT !.op = "sweep", !.err = "KeyError"]
               /\ UNCHANGED heap
          ELSE /\ heap' = [heap EXCEPT ![L[mon.i]] = Swept(L[mon.i], mon.time)]
               /\ mon' = [mon EXCEPT !.i = mon.i + 1]
               /\ ret' = NoRet
               /\ UNCHANGED health_check_lock
     ELSE /\ mon' = Asleep
          /\ health_check_lock' = Released(FALSE)
          /\ ret' = [NoRet EXCEPT !.op = "sweep"]
          /\ UNCHANGED heap
  /\ UNCHANGED <<initial_nodes, nodes, now, nextId, nodes_lock, sel, rd, disp, beats>>

(***************************************************************************)
(* The environment: the clock, and the external heartbeat refresh that     *)
(* writes last_heartbeat into a registered node's dict.                    *)
(***************************************************************************)
Tick(d) ==
  /\ mon.pc = "sleep"
  /\ mon.wake > now
  /\ sel.pc = "idle"
  /\ rd.pc = "idle"
  /\ now' = now + d
  /\ ret' = NoRet
  /\ UNCHANGED <<initial_nodes, health_check_lock, heap, nodes, nextId, nodes_lock, sel, rd, mon, disp, beats>>

Heartbeat(o) ==
  /\ o \in Range(nodes)
  /\ ~IsRaw(o)
  /\ heap[o].last_heartbeat # now
  /\ beats < MaxBeats
  /\ beats' = beats + 1
  /\ heap' = [heap EXCEPT ![o].last_heartbeat = now]
  /\ ret' = NoRet
  /\ UNCHANGED <<initial_nodes, health_check_lock, nodes, now, nextId, nodes_lock, sel, rd, mon, disp>>

(***************************************************************************)
(* perform_distributed_operation:                                          *)
(*   healthy_nodes = self.get_healthy_nodes()       (DispBegin, RdStep)    *)
(*   with ThreadPoolExecutor(max_workers=max) as executor:                 *)
(*       futures = {executor.submit(...): node ...} (last RdStep)          *)
(*       for future in as_completed(futures):       (Collect, one future   *)
(*           results.append({...})                   each)                 *)
(*   return results                                 (DispReturn)           *)
(* The operation runs in a worker thread and ends by returning or by       *)
(* raising (OpDone).                                                       *)
(***************************************************************************)
DispBegin(c) ==
  /\ disp.pc = "idle"
  /\ rd.pc = "idle"
  /\ rd' = [RdIdle EXCEPT !.pc = "iter", !.purpose = "dispatch", !.m = 1,
                          !.maxc = c, !.i = 1, !.time = now]
  /\ disp' = [DispIdle EXCEPT !.pc = "reading", !.maxc = c]
  /\ ret' = NoRet
  /\ UNCHANGED <<initial_nodes, health_check_lock, heap, nodes, now, nextId, nodes_lock, sel, mon, beats>>

OpDone(k, outcome) ==
  /\ disp.pc = "running"
  /\ k \in 1..Len(disp.futs)
  /\ disp.futs[k].st = "running"
  /\ disp' = [disp EXCEPT !.futs[k].st = outcome]
  /\ ret' = NoRet
  /\ UNCHANGED <<initial_nodes, health_check_lock, heap, nodes, now, nextId, nodes_lock, sel, rd, mon, beats>>

\* a collection that loses the failure of an invocation
OutcomeNoFail(k) ==
  [k |-> k, node_id |-> heap[disp.futs[k].node].id, status |-> "success"]

\* the dict appended to results for future k: future.result() returned or raised
Outcome(k) ==
  [k |-> k, node_id |-> heap[disp.futs[k].node].id,
   status |-> IF disp.futs[k].st = "returned" THEN "success" ELSE "failed"]

Collect(k) ==
  /\ disp.pc = "running"
  /\ k \in 1..Len(disp.futs)
  /\ disp.futs[k].st \in {"returned", "raised"}
  /\ ~disp.futs[k].collected
  /\ disp' = [disp EXCEPT !.futs[k].collected = TRUE,
                          !.results = Append(disp.results, Outcome(k))]
  /\ ret' = NoRet
  /\ UNCHANGED <<initial_nodes, health_check_lock, heap, nodes, now, nextId, nodes_lock, sel, rd, mon, beats>>

\* a loop over the futures that ends with the first collected outcome
FirstCollected == \E k \in 1..Len(disp.futs) : disp.futs[k].collected

\* for future in as_completed(futures): the loop has yielded every future
Exhausted == \A k \in 1..Len(disp.futs) : disp.futs[k].collected

DispReturn ==
  /\ disp.pc = "running"
  /\ Exhausted
  /\ disp' = DispIdle
  /\ ret' = [NoRet EXCEPT !.op = "dispatch", !.arg = disp.maxc,
                          !.val = disp.results]
  /\ UNCHANGED <<initial_nodes, health_check_lock, heap, nodes, now, nextId, nodes_lock, sel, rd, mon, beats>>

(***************************************************************************)
(* Observers: what a test harness would record.  They read the step just   *)
(* taken and never influence it.                                           *)
(***************************************************************************)
MaxRun == 3        \* selections recorded in one run

\* the registry holds no dict without fields and no dict twice
WellFormed(h, L, s) ==
  /\ \A o \in Registered(L, s) : h[o].status # "missing"
  /\ NoDup(L)
  /\ s.pc = "popped" => s.popped \notin Range(L)

HealthyThrough(h, L, s, t) == {o \in Registered(L, s) : HealthyDict(h[o], t)}

\* a run: the selections made since a select call began on the registry
\* `start`, with no add, remove, heartbeat, status flip or clock step since
ObserveRun(rec) ==
  run' = IF ~rec THEN NoRun
         ELSE IF sel.pc = "idle" /\ sel'.pc = "chosen"
         THEN IF run.start = <<>> \/ Len(run.rets) >= MaxRun
              THEN [start |-> nodes, healthy |-> sel'.healthy, rets |-> <<>>]
              ELSE run
         ELSE IF ret'.op = "select" /\ ret'.err = "none"
         THEN IF run.start = <<>> THEN NoRun
              ELSE [run EXCEPT !.rets = Append(run.rets, sel.selected)]
         ELSE IF sel' # sel THEN run
         ELSE IF heap' = heap /\ nodes' = nodes /\ now' = now THEN run
         ELSE NoRun

ObserveRead ==
  IF rd.pc = "idle" /\ rd'.pc # "idle"
  THEN /\ stayRd' = HealthyThrough(heap', nodes', sel', rd'.time)
       /\ wfRd' = WellFormed(heap', nodes', sel')
  ELSE IF rd.pc # "idle"
  THEN /\ stayRd' = stayRd \cap HealthyThrough(heap', nodes', sel', rd.time)
       /\ wfRd' = (wfRd /\ WellFormed(heap', nodes', sel'))
  ELSE /\ stayRd' = {}
       /\ wfRd' = TRUE

ObserveSweep ==
  stayMon' = IF mon.pc = "sleep" /\ mon'.pc = "sweep"
             THEN Registered(nodes', sel')
             ELSE IF mon.pc = "sweep"
             THEN stayMon \cap Registered(nodes', sel')
             ELSE {}

Observe(rec) == ObserveRun(rec) /\ ObserveRead /\ ObserveSweep

(***************************************************************************)
(* Specifications.  Spec: one client thread (a call begins when the        *)
(* previous call has returned) beside the monitor thread.  SpecConc: the   *)
(* selector, the reader/dispatcher and the add/remove callers are threads  *)
(* of their own.                                                           *)
(***************************************************************************)
\* the dicts a caller can pass to add_node: any dict seen before, or a new one
Used == {o \in Objs : ~IsRaw(o)} \cup Range(nodes)

AddTargets == Used \cup {o \in Objs \ Used : \A p \in Objs \ Used : o <= p}

\* the ids a caller can pass to remove_node: one a node carries, the one it
\* has just removed, or one no node carries
NoSuchId == 0

RemoveArgs ==
  {heap[o].id : o \in {p \in Range(nodes) : ~IsRaw(p)}}
    \cup (IF ret.op = "remove" THEN {ret.arg} ELSE {}) \cup {NoSuchId}

Registry(free, rec, n) ==
  \/ free /\ nextId < n /\ Len(nodes) < n
          /\ (\E o \in AddTargets : AddNode(o)) /\ Observe(rec)
  \/ free /\ (\E x \in RemoveArgs : RemoveNode(x)) /\ Observe(rec)
  \/ free /\ SelBegin /\ Observe(rec)
  \/ SelPop /\ Observe(rec)
  \/ SelAppend /\ Observe(rec)

Readers(free, rec, n) ==
  \/ free /\ (\E m \in 1..n : RdBegin(m)) /\ Observe(rec)
  \/ free /\ (\E c \in 0..MaxConc : DispBegin(c)) /\ Observe(rec)
  \/ RdStep /\ Observe(rec)
  \/ (\E k \in 1..MaxConc : \E outcome \in {"returned", "raised"} :
         OpDone(k, outcome)) /\ Observe(rec)
  \/ (\E k \in 1..MaxConc : Collect(k)) /\ Observe(rec)
  \/ DispReturn /\ Observe(rec)

Background(rec, horizon, steps) ==
  \/ MonBegin /\ Observe(rec)
  \/ MonStep /\ Observe(rec)
  \/ (\E d \in steps : now + d <= horizon /\ Tick(d)) /\ Observe(rec)
  \/ (\E o \in Objs : Heartbeat(o)) /\ Observe(rec)

\* one client that registers, removes and selects
Next == Registry(Quiet, TRUE, MaxNodes) \/ Background(TRUE, MaxTime, {node_timeout})

\* one client that also reads the healthy nodes and dispatches
NextRead ==
  Registry(Quiet, FALSE, FewNodes) \/ Readers(Quiet, FALSE, FewNodes)
    \/ Background(FALSE, MaxTime, {node_timeout})

\* a thread for each kind of call, over one monitor period
NextConc ==
  Registry(TRUE, FALSE, FewNodes) \/ Readers(TRUE, FALSE, FewNodes)
    \/ Background(FALSE, health_check_interval, {health_check_interval})

(***************************************************************************)
(* Runs of unbounded length.  Elapse lets d seconds pass like Tick; once    *)
(* the clock has reached the horizon it moves every timestamp back by d    *)
(* instead of the clock forward.  Every age and every time left to sleep   *)
(* is the same either way, except that an age stops growing at the         *)
(* horizon, which is beyond node_timeout.                                  *)
(***************************************************************************)
LiveNodes == 2     \* add_node calls and length of self.nodes in unbounded runs

Rebased(t, d) == IF t = NoTime THEN NoTime ELSE IF t < d THEN 0 ELSE t - d

Elapse(d, horizon) ==
  IF now + d <= horizon
  THEN Tick(d)
  ELSE /\ mon.pc = "sleep"
       /\ mon.wake > now
       /\ sel.pc = "idle"
       /\ rd.pc = "idle"
       /\ heap' = [o \in Objs |->
                    [heap[o] EXCEPT !.last_heartbeat = Rebased(@, d)]]
       /\ mon' = [mon EXCEPT !.wake = @ - d, !.time = Rebased(@, d)]
       /\ ret' = NoRet
       /\ UNCHANGED <<initial_nodes, health_check_lock, nodes, now, nextId,
                      nodes_lock, sel, rd, disp, beats>>

Clock == Elapse(node_timeout, health_check_interval) /\ Observe(FALSE)

MonitorLoop == (MonBegin \/ MonStep) /\ Observe(FALSE)

Selecting == (SelPop \/ SelAppend) /\ Observe(FALSE)

Reading == RdStep /\ Observe(FALSE)

Operating ==
  (\E k \in 1..MaxConc : \E outcome \in {"returned", "raised"} : OpDone(k, outcome))
    /\ Observe(FALSE)

Collecting == ((\E k \in 1..MaxConc : Collect(k)) \/ DispReturn) /\ Observe(FALSE)

\* one client thread, the executor's workers and the monitor thread
NextLive ==
  \/ Registry(Quiet, FALSE, LiveNodes)
  \/ Readers(Quiet, FALSE, LiveNodes)
  \/ MonitorLoop
  \/ Clock

\* every thread that can take a step is scheduled in the end, every operation
\* handed to the executor ends, and time passes
Fairness ==
  /\ WF_vars(MonitorLoop)
  /\ WF_vars(Selecting)
  /\ WF_vars(Reading)
  /\ WF_vars(Operating)
  /\ WF_vars(Collecting)
  /\ SF_vars(Clock)

Spec == Init /\ [][Next]_vars

SpecLive == Init /\ [][NextLive]_vars /\ Fairness

SpecRead == Init /\ [][NextRead]_vars

SpecConc == Init /\ [][NextConc]_vars

(***************************************************************************)
(* Claims.                                                                 *)
(***************************************************************************)
IsPrefix(s, t) == Len(s) <= Len(t) /\ \A i \in 1..Len(s) : s[i] = t[i]

\* C1 (rotation fairness): in a run of consecutive successful selections with
\* no other change of the registry, of the clock or of a node in between, the
\* first N selections, N the number of healthy nodes, return N different
\* healthy nodes, and N selections return every healthy node.  Stated for
\* registries that hold no dict twice.
C1_RotationFairness ==
  LET H == {o \in Range(run.start) : IsHealthy(o, now)}
      N == Cardinality(H)
  IN  run.rets # <<>> /\ NoDup(run.start) /\ Len(run.rets) <= N =>
        /\ NoDup(run.rets)
        /\ Range(run.rets) \subseteq H
        /\ Len(run.rets) = N => Range(run.rets) = H

\* C2 (concrete scenario): with A, B, C registered in that order and only B
\* stale or Inactive, the healthy nodes the selector gets from
\* get_healthy_nodes(1) are exactly A, C, and consecutive selections return
\* A, then C, then A.
C2_Scenario ==
  Len(run.start) = 3 =>
    LET a == run.start[1]
        b == run.start[2]
        c == run.start[3]
    IN  ( /\ heap[a].id < heap[b].id /\ heap[b].id < heap[c].id
          /\ IsHealthy(a, now) /\ ~IsHealthy(b, now) /\ IsHealthy(c, now) )
        => /\ run.healthy = <<a, c>>
           /\ IsPrefix(run.rets, <<a, c, a>>)

\* C3 (snapshot consistency): a get_healthy_nodes call on a registry that is
\* well formed throughout (every dict carries its fields, no dict is held
\* twice) returns every node that stays registered and healthy through the
\* call, returns no node twice, and raises the capacity error, alone or inside
\* a dispatch, only if fewer than min_nodes nodes stay registered and healthy.
C3_SnapshotConsistent ==
  wfRd =>
    /\ ret.op = "get_healthy" /\ ret.err = "none" =>
          stayRd \subseteq Range(ret.val) /\ NoDup(ret.val)
    /\ ret.op = "get_healthy" /\ ret.err = "capacity" =>
          Cardinality(stayRd) < ret.arg
    /\ ret.op = "dispatch" /\ ret.err = "capacity" => stayRd = {}

Failed(rs) == {j \in 1..Len(rs) : rs[j].status = "failed"}

Raised(fs) == {k \in 1..Len(fs) : fs[k].st = "raised"}

\* C4 (partial failure completeness): every collection appends the outcome of
\* one finished invocation, with its node's id, failed exactly if the
\* invocation raised, whatever the other invocations did; and a dispatch
\* returns one outcome for each of its K invocations, F of them failed where F
\* invocations raised.
C4_PartialFailure ==
  [][ /\ Len(disp'.results) = Len(disp.results) + 1 =>
            \E k \in 1..Len(disp.futs) :
               /\ ~disp.futs[k].collected /\ disp'.futs[k].collected
               /\ disp'.results[Len(disp'.results)] =
                    [k |-> k, node_id |-> heap[disp.futs[k].node].id,
                     status |-> IF k \in Raised(disp.futs) THEN "failed" ELSE "success"]
               /\ \A j \in 1..Len(disp.results) : disp'.results[j] = disp.results[j]
      /\ ret'.op = "dispatch" /\ ret'.err = "none" =>
            /\ Len(ret'.val) = Len(disp.futs)
            /\ \A k \in 1..Len(disp.futs) : \E j \in 1..Len(ret'.val) : ret'.val[j].k = k
            /\ Cardinality(Failed(ret'.val)) = Cardinality(Raised(disp.futs))
            /\ \A j \in 1..Len(ret'.val) :
                  ret'.val[j].status = "failed" <=> ret'.val[j].k \in Raised(disp.futs) ]_vars

\* C4 witness: a dispatch over two nodes has returned two outcomes, the first
\* collected one failed and the other one a success
C4_Witness ==
  /\ ret.op = "dispatch" /\ ret.err = "none" /\ Len(ret.val) = 2
  /\ ret.val[1].status = "failed" /\ ret.val[2].status = "success"
  /\ ret.val[1].node_id # ret.val[2].node_id

\* C5 (dispatch fails only without healthy nodes): a dispatch call of a manager
\* constructed without initial nodes that found a healthy node registered
\* throughout its read raises nothing, whatever max_concurrent_nodes is.
C5_DispatchFailsOnlyEmpty ==
  initial_nodes = <<>> /\ ret.op = "dispatch" /\ stayRd # {} => ret.err = "none"

\* C6 (health demotion timing): once the monitor has swept and sleeps, a
\* registered node whose heartbeat has been older than node_timeout for one
\* health_check_interval is Inactive, and the healthy list a selection works
\* on holds no node whose heartbeat age has reached node_timeout.  Stated for
\* managers constructed without initial nodes.
C6_DemotionTiming ==
  initial_nodes = <<>> =>
    /\ mon.pc = "sleep" /\ mon.wake > now /\ sel.pc = "idle" =>
          \A o \in Range(nodes) :
             now - heap[o].last_heartbeat >= node_timeout + health_check_interval
               => heap[o].status = "inactive"
    /\ \A i \in 1..Len(sel.healthy) :
          now - heap[sel.healthy[i]].last_heartbeat < node_timeout

\* C7 (sweep completeness): when a sweep ends without error, every node that
\* was registered during the whole sweep and whose heartbeat age at the
\* sweep's time exceeds node_timeout is Inactive.  Stated for managers
\* constructed without initial nodes.
C7_SweepComplete ==
  initial_nodes = <<>> /\ ret.op = "sweep" /\ ret.err = "none" =>
    \A o \in stayMon :
       ~IsRaw(o) /\ IsExpired(o, mon.time) => heap[o].status = "inactive"

\* C8 (insufficient-capacity boundary): get_healthy_nodes(m), called while no
\* other call runs and no node turns healthy, raises the capacity error if
\* exactly m - 1 registered nodes are healthy, and returns exactly the healthy
\* nodes, in registry order, if exactly m are.
C8_CapacityBoundary ==
  LET H == HealthyOf(nodes, now) IN
    ret.op = "get_healthy" /\ Range(H) = stayRd /\ NoDup(nodes) =>
      /\ Len(H) = ret.arg - 1 => ret.err = "capacity"
      /\ Len(H) = ret.arg => ret.err = "none" /\ ret.val = H

\* C9 (id uniqueness): no two entries of the registry carry the same id.
C9_IdsUnique ==
  \A i, j \in 1..Len(nodes) :
     i # j /\ ~IsRaw(nodes[i]) /\ ~IsRaw(nodes[j])
       => heap[nodes[i]].id # heap[nodes[j]].id

\* C10 (idempotent removal): remove_node(x) raises nothing, deletes exactly
\* the node with id x keeping the others in order, shrinks the registry by at
\* most one, and a second remove_node(x) right after it changes nothing.
C10_Removal ==
  [][ ret'.op = "remove" =>
        /\ ret'.err = "none"
        /\ nodes' = SelectSeq(nodes, LAMBDA o : heap[o].id # ret'.arg)
        /\ Len(nodes) - Len(nodes') <= 1
        /\ (ret.op = "remove" /\ ret.arg = ret'.arg) => nodes' = nodes ]_vars

\* a step of the monitor thread: it begins a sweep, visits a node or ends a sweep
MonitorStep == mon'.pc # mon.pc \/ mon'.i # mon.i

\* C11 (the monitor never removes and never resurrects): a step of the monitor
\* leaves the registry's members and order, and every id and heartbeat, as
\* they were; the status under a given id only ever changes from active to
\* inactive, and only by a step of the monitor; so an Inactive node stays
\* Inactive for as long as it carries its id.
C11_NoResurrection ==
  [][ /\ MonitorStep =>
            /\ nodes' = nodes
            /\ \A o \in Objs : /\ heap'[o].id = heap[o].id
                               /\ heap'[o].last_heartbeat = heap[o].last_heartbeat
      /\ \A o \in Objs :
            heap[o].id # NoId /\ heap'[o].id = heap[o].id =>
              /\ heap[o].status = "inactive" => heap'[o].status = "inactive"
              /\ heap'[o].status # heap[o].status =>
                    /\ MonitorStep
                    /\ heap[o].status = "active" /\ heap'[o].status = "inactive" ]_vars

\* C11 witness: a registered node is Inactive although its heartbeat was
\* refreshed after the sweep that demoted it
C11_Witness ==
  \E o \in Range(nodes) :
     heap[o].status = "inactive" /\ heap[o].last_heartbeat = now

\* C12 (monitor resilience): a sweep that raises leaves the monitor asleep for
\* one health_check_interval with the health lock released, and under fair
\* scheduling another sweep follows it; sweeps occur infinitely often.
C12_MonitorResilient ==
  /\ [](ret.op = "sweep" /\ ret.err # "none" =>
          /\ mon.pc = "sleep" /\ mon.wake = now + health_check_interval
          /\ health_check_lock = "free")
  /\ (ret.op = "sweep" /\ ret.err # "none") ~> (mon.pc = "sweep")
  /\ []<>(mon.pc = "sweep")

\* C12 witness: a sweep has just raised KeyError on a node without fields
C12_Witness ==
  ret.op = "sweep" /\ ret.err = "KeyError" /\ HasRaw(nodes)

\* the public methods of ClusterManager, as ret.op names them
Methods == {"add", "remove", "select", "get_healthy", "dispatch"}

\* C13 (graceful shutdown): one of the manager's methods is a cancellation
\* signal after which sweeps stop; so in a run in which every method has been
\* called, whichever of them is the signal, the monitor in the end sleeps for
\* good.
C13_Shutdown ==
  (\A op \in Methods : <>(ret.op = op)) => <>[](mon.pc = "sleep")

\* C14 (dispatch blocks until all work is done): a dispatch returns its
\* outcome list only when none of the invocations it submitted is still
\* running, and, every invocation ending, a dispatch that has submitted its
\* invocations returns.
C14_DispatchBlocks ==
  /\ [][ ret'.op = "dispatch" /\ ret'.err = "none" =>
            /\ disp.pc = "running"
            /\ \A k \in 1..Len(disp.futs) : disp.futs[k].st # "running"
            /\ Len(ret'.val) = Len(disp.futs) ]_vars
  /\ (disp.pc = "running") ~> (ret.op = "dispatch" /\ ret.err = "none")

\* C14 witness: a dispatch has collected the outcome of one invocation and
\* waits for another one that is still running
C14_Witness ==
  /\ disp.pc = "running"
  /\ \E k, j \in 1..Len(disp.futs) :
        disp.futs[k].collected /\ disp.futs[j].st = "running"

\* C15 (the selected node moves to the back): when a selection on a registry
\* that holds no dict twice returns node n, n is the last element of the
\* registry and the other nodes are in the order they had before the call.
C15_SelectedLast ==
  [][ ret'.op = "select" /\ ret'.err = "none" /\ NoDup(sel.before) =>
        LET n == ret'.val[1] IN
          /\ nodes'[Len(nodes')] = n
          /\ SelectSeq(nodes', LAMBDA o : o # n)
               = SelectSeq(sel.before, LAMBDA o : o # n) ]_vars

\* C16 (selection without healthy nodes): a select call on a registry without
\* a healthy node raises the capacity error, and a select call that raises
\* leaves the registry's members, their order and their fields as they were
\* and the registry lock free.
C16_SelectFails ==
  [][ sel.pc = "idle" /\ ret'.op = "select" =>
        /\ HealthyOf(nodes, now) = <<>> => ret'.err = "capacity"
        /\ ret'.err # "none" =>
              nodes' = nodes /\ heap' = heap /\ nodes_lock' = "free" ]_vars

Min(a, b) == IF a < b THEN a ELSE b

\* the nodes a dispatch has submitted an invocation for, in submission order
Invoked(d) == [k \in 1..Len(d.futs) |-> d.futs[k].node]

\* C17 (dispatch fan-out): when the read of a dispatch with
\* max_concurrent_nodes = c ends, no other call running and no node having
\* turned healthy meanwhile, and H is the list of healthy nodes in registry
\* order: with H empty the dispatch raises the capacity error and invokes
\* nothing; otherwise it invokes the operation once on each of the first
\* min(c, |H|) nodes of H, which are distinct nodes.
C17_FanOut ==
  [][ rd.purpose = "dispatch" /\ rd.pc = "iter" /\ rd'.pc = "idle" =>
        LET H == HealthyOf(nodes, now) IN
          Range(H) = stayRd' =>
            /\ H = <<>> => ret'.err = "capacity" /\ disp'.futs = <<>>
            /\ H # <<>> =>
                  /\ Invoked(disp') = SubSeq(H, 1, Min(rd.maxc, Len(H)))
                  /\ NoDup(Invoked(disp')) ]_vars

Count(o, L) == Cardinality({i \in 1..Len(L) : L[i] = o})

\* a step of the thread inside select_node_for_operation
SelectStep == sel' # sel \/ ret'.op = "select"

\* C18 (selection only reorders): no step of a select call changes a field of
\* a node; a select call that returns leaves every node in the registry as
\* many times as it was there before the call; and the status of a node that
\* stays registered changes only in add_node or in a step of the monitor.
C18_SelectReorders ==
  [][ /\ SelectStep => heap' = heap
      /\ ret'.op = "select" =>
            \A o \in Objs :
               Count(o, nodes') = Count(o, IF sel.pc = "idle" THEN nodes ELSE sel.before)
      /\ \A o \in Range(nodes') :
            heap'[o].status # heap[o].status => ret'.op = "add" \/ MonitorStep ]_vars

\* C18 witness: a selection has returned on a registry of three nodes, one of
\* them Inactive
C18_Witness ==
  /\ ret.op = "select" /\ ret.err = "none" /\ Len(nodes) = 3 /\ NoDup(nodes)
  /\ \E o \in Range(nodes) : heap[o].status = "inactive"

Fresh(h, o, t) == t - h[o].last_heartbeat < node_timeout

\* C19 (no stale node is handed out): every node that a selection or
\* get_healthy_nodes returns, and every node a dispatch submits an invocation
\* for, has a heartbeat younger than node_timeout at the time of the call,
\* whether or not the monitor has swept.
C19_NoStaleNode ==
  [][ /\ ret'.op \in {"select", "get_healthy"} /\ ret'.err = "none" =>
            \A o \in Range(ret'.val) : Fresh(heap', o, now')
      /\ disp.pc = "reading" /\ disp'.pc = "running" =>
            \A o \in Range(Invoked(disp')) : Fresh(heap', o, now') ]_vars

\* C19 witness: get_healthy_nodes has returned nodes and left out a registered
\* node whose heartbeat is stale and whose status is still active
C19_Witness ==
  /\ ret.op = "get_healthy" /\ ret.err = "none" /\ ret.val # <<>>
  /\ \E o \in Range(nodes) \ Range(ret.val) :
        heap[o].status = "active" /\ ~Fresh(heap, o, now)

C21_NodesCarryFields ==
  /\ \A i \in 1..Len(nodes) :
        /\ heap[nodes[i]].id # NoId
        /\ heap[nodes[i]].last_heartbeat # NoTime
        /\ heap[nodes[i]].status \in {"active", "inactive"}
  /\ ret.err # "KeyError"

====
